---- MODULE Spec2Model ----
(***************************************************************************)
(* Model of the SamaritanOS ink! contract (src/lib.rs, mod sam_os).        *)
(* The contract storage is four Mappings; every #[ink(message)] is one     *)
(* atomic action (the host runs one message to completion at a time).      *)
(* SpecRace runs update_file_meta one storage access per step instead.     *)
(* Byte strings (DID, IpfsCid, DbMetadata) are sequences of byte values.   *)
(* Option<T> is a sequence of length 0 (None) or 1 (Some(v)).              *)
(***************************************************************************)
EXTENDS Integers, Sequences, FiniteSets, TLC

VARIABLES auth_list, files_meta, access_list, file_keys, n_updates, calls

vars == <<auth_list, files_meta, access_list, file_keys, n_updates, calls>>
tables == <<auth_list, files_meta, access_list, file_keys>>

\* ------------------------------------------------------------------ bounds
\* cap on the number of update_file_meta calls made on one file key
MaxUpdates == 3
\* cap on the number of update_file_meta calls over all keys (SpecKeys)
MaxTotalUpdates == 3

\* ------------------------------------------------------------------ values
None == <<>>
Some(v) == <<v>>
IsSome(o) == Len(o) = 1
Unwrap(o) == o[1]

\* "did:sam:root:apps:xxxxxxxxxxxx".as_bytes()
Sentinel == <<100, 105, 100, 58, 115, 97, 109, 58, 114, 111, 111, 116, 58,
              97, 112, 112, 115, 58,
              120, 120, 120, 120, 120, 120, 120, 120, 120, 120, 120, 120>>
\* "--", "##", "####"
DidSeparator == <<45, 45>>
Separator == <<35, 35>>
ChunkSeparator == <<35, 35, 35, 35>>

DidA == <<65>>
DidB == <<66>>
DIDs == {Sentinel, DidA, DidB}
NonSentinel == DIDs \ {Sentinel}
HashKeys == {100, 200}
\* the key the single-key specification works on
FocusKeys == {100}
Cids == {<<1>>, <<2>>}
DocCids == {<<3>>}
AuthContents == {42, 7}
Metadatas == {<<>>}
\* the identities accounts are created for
AccountDIDs == {DidA}

\* Default::default() of Vec<u8>, and of FileMeta (unwrap_or_default)
EmptyBytes == <<>>
DefaultFileMeta ==
    [access_list |-> <<EmptyBytes, EmptyBytes>>, cid |-> EmptyBytes,
     nonce |-> 0, db_meta |-> EmptyBytes]

\* Mapping::get on a key outside the enumerated key space is None
AccessGet(did, hk) ==
    IF <<did, hk>> \in DOMAIN access_list THEN access_list[<<did, hk>>] ELSE None

\* the callers of the interleaved update_file_meta (SpecRace)
Procs == {1, 2}

\* a caller that has not called yet
IdleCall ==
    [pc |-> "idle", cid |-> EmptyBytes, hk |-> 0, dids |-> <<EmptyBytes, EmptyBytes>>,
     bits |-> <<FALSE, FALSE>>, nonce |-> 0, slot |-> 1, index |-> 0,
     time |-> None, keys |-> None, overlapped |-> FALSE]

Init ==
    /\ calls = [p \in Procs |-> IdleCall]
    /\ auth_list = [d \in DIDs |-> None]
    /\ files_meta = [k \in HashKeys |-> None]
    /\ access_list = [p \in DIDs \X HashKeys |-> None]
    /\ file_keys = [d \in DIDs |-> None]
    /\ n_updates = [k \in HashKeys |-> 0]

\* ------------------------------------------------------------------ accounts
\* an existing account keeps its credential; only the pointers are replaced
create_new_account_KeepsCredential(did, auth_content, did_doc_cid, root_hash_table) ==
    LET user == [auth_content |-> IF IsSome(auth_list[did])
                                  THEN Unwrap(auth_list[did]).auth_content
                                  ELSE auth_content,
                 did_doc_cid |-> did_doc_cid,
                 root_hash_table |-> root_hash_table]
    IN /\ auth_list' = [auth_list EXCEPT ![did] = Some(user)]
       /\ UNCHANGED <<files_meta, access_list, file_keys, n_updates, calls>>

create_new_account(did, auth_content, did_doc_cid, root_hash_table) ==
    LET user == [auth_content |-> auth_content, did_doc_cid |-> did_doc_cid,
                 root_hash_table |-> root_hash_table]
    IN /\ auth_list' = [auth_list EXCEPT ![did] = Some(user)]
       /\ UNCHANGED <<files_meta, access_list, file_keys, n_updates, calls>>

AccountIsAuth(did, auth_content) ==
    LET did_entry == auth_list[did]
    IN IF IsSome(did_entry)
       THEN <<Unwrap(did_entry).auth_content = auth_content,
              Unwrap(did_entry).root_hash_table>>
       ELSE <<FALSE, EmptyBytes>>

account_is_auth(did, auth_content) ==
    UNCHANGED vars

\* a missing account created with default fields instead of the no-op
update_hashtable_Upsert(cid, did) ==
    LET did_entry == auth_list[did]
        base == IF IsSome(did_entry) THEN Unwrap(did_entry)
                ELSE [auth_content |-> 0, did_doc_cid |-> EmptyBytes,
                      root_hash_table |-> EmptyBytes]
    IN /\ auth_list' = [auth_list EXCEPT ![did] = Some([base EXCEPT !.root_hash_table = cid])]
       /\ UNCHANGED <<files_meta, access_list, file_keys, n_updates, calls>>

update_hashtable(cid, did) ==
    LET did_entry == auth_list[did]
    IN /\ auth_list' = IF IsSome(did_entry)
                       THEN [auth_list EXCEPT
                               ![did] = Some([Unwrap(did_entry) EXCEPT !.root_hash_table = cid])]
                       ELSE auth_list
       /\ UNCHANGED <<files_meta, access_list, file_keys, n_updates, calls>>

\* ------------------------------------------------------------------ files
\* an unknown key answered with the default record's nonce
GetFileSyncInfo_Default(hk) ==
    IF IsSome(files_meta[hk])
    THEN <<Unwrap(files_meta[hk]).nonce, Unwrap(files_meta[hk]).cid>>
    ELSE <<0, EmptyBytes>>

GetFileSyncInfo(hk) ==
    IF IsSome(files_meta[hk])
    THEN <<Unwrap(files_meta[hk]).nonce, Unwrap(files_meta[hk]).cid>>
    ELSE <<1, EmptyBytes>>

get_file_sync_info(hk) ==
    UNCHANGED vars

\* the increment forgotten: an existing record keeps its nonce
NextNonce_NoIncrement(meta) == IF IsSome(meta) THEN Unwrap(meta).nonce ELSE 1

\* every write starts the nonce again
NextNonce_Restart(meta) == 1

\* the first write stores the default nonce
NextNonce_ZeroBased(meta) == IF IsSome(meta) THEN Unwrap(meta).nonce + 1 ELSE 0

NextNonce(meta) == IF IsSome(meta) THEN Unwrap(meta).nonce + 1 ELSE 1

\* a set access bit grants unlimited access instead of keeping the stored value
KeptAccess_Regrant(access_bit, time) == IF access_bit THEN 1 ELSE 0

\* a kept entry advanced instead of rewritten
KeptAccess_Increment(access_bit, time) == IF access_bit THEN time + 1 ELSE 0

\* the value written for a did whose access entry already exists
KeptAccess(access_bit, time) == IF access_bit THEN time ELSE 0

\* the key list replaced instead of extended
PushKey_Overwrite(keys, hk) == <<hk>>

\* the key pushed without the `contains` test
PushKey_Always(keys, hk) == IF IsSome(keys) THEN Append(Unwrap(keys), hk) ELSE <<hk>>

\* the key inserted at the front of the list
PushKey_Prepend(keys, hk) ==
    IF IsSome(keys)
    THEN IF \E i \in 1..Len(Unwrap(keys)) : Unwrap(keys)[i] = hk
         THEN Unwrap(keys)
         ELSE <<hk>> \o Unwrap(keys)
    ELSE <<hk>>

\* the keys written back to file_keys for a did
PushKey(keys, hk) ==
    IF IsSome(keys)
    THEN IF \E i \in 1..Len(Unwrap(keys)) : Unwrap(keys)[i] = hk
         THEN Unwrap(keys)
         ELSE Append(Unwrap(keys), hk)
    ELSE <<hk>>

\* one iteration of `for did in dids`; st = [al, fk, index] are the access_list
\* and file_keys mappings and the local `index` (0-based as in the source)
AttachOwner(st, did, hk, access_bits) ==
    IF did # Sentinel
    THEN LET current_time == st.al[<<did, hk>>]
             written == IF IsSome(current_time)
                        THEN KeptAccess(access_bits[st.index + 1], Unwrap(current_time))
                        ELSE 1
         IN [al |-> [st.al EXCEPT ![<<did, hk>>] = Some(written)],
             fk |-> [st.fk EXCEPT ![did] = Some(PushKey(st.fk[did], hk))],
             index |-> st.index + 1]
    ELSE st

update_file_meta(cid, hk, metadata, did_1, did_2, access_bit_1, access_bit_2) ==
    LET access_bits == <<access_bit_1, access_bit_2>>
        dids == <<did_1, did_2>>
        nonce == NextNonce(files_meta[hk])
        meta == [access_list |-> dids, cid |-> cid, nonce |-> nonce, db_meta |-> metadata]
        st0 == [al |-> access_list, fk |-> file_keys, index |-> 0]
        st1 == AttachOwner(st0, dids[1], hk, access_bits)
        st2 == AttachOwner(st1, dids[2], hk, access_bits)
    IN /\ n_updates[hk] < MaxUpdates
       /\ files_meta' = [files_meta EXCEPT ![hk] = Some(meta)]
       /\ access_list' = st2.al
       /\ file_keys' = st2.fk
       /\ n_updates' = [n_updates EXCEPT ![hk] = @ + 1]
       /\ UNCHANGED <<auth_list, calls>>

\* the two stored values swapped
RevokeValue_Inverted(revoke) == IF revoke THEN 1 ELSE 0

RevokeValue(revoke) == IF revoke THEN 0 ELSE 1

revoke_access(did, hk, revoke) ==
    /\ access_list' = [access_list EXCEPT ![<<did, hk>>] = Some(RevokeValue(revoke))]
    /\ UNCHANGED <<auth_list, files_meta, file_keys, n_updates, calls>>

\* ------------------------------------------------------------------ update_file_meta, one storage access per step
\* Each caller p runs the body of update_file_meta with every Mapping::get and
\* Mapping::insert as a step of its own; calls[p] holds its arguments and locals.
MidCall(p) == calls[p].pc \notin {"idle", "done"}

\* the call starts and reads the stored nonce
update_file_meta_get_meta(p, cid, hk, did_1, did_2, access_bit_1, access_bit_2) ==
    LET others == {q \in Procs \ {p} : MidCall(q)}
    IN /\ calls[p].pc = "idle"
       /\ calls' = [q \in Procs |->
                      IF q = p
                      THEN [IdleCall EXCEPT !.pc = "put_meta", !.cid = cid, !.hk = hk,
                                            !.dids = <<did_1, did_2>>,
                                            !.bits = <<access_bit_1, access_bit_2>>,
                                            !.nonce = NextNonce(files_meta[hk]),
                                            !.overlapped = others # {}]
                      ELSE IF q \in others THEN [calls[q] EXCEPT !.overlapped = TRUE]
                      ELSE calls[q]]
       /\ UNCHANGED <<auth_list, files_meta, access_list, file_keys, n_updates>>

\* self.files_meta.insert(hk, &metadata)
update_file_meta_put_meta(p) ==
    LET c == calls[p]
        meta == [access_list |-> c.dids, cid |-> c.cid, nonce |-> c.nonce,
                 db_meta |-> EmptyBytes]
    IN /\ c.pc = "put_meta"
       /\ files_meta' = [files_meta EXCEPT ![c.hk] = Some(meta)]
       /\ n_updates' = [n_updates EXCEPT ![c.hk] = @ + 1]
       /\ calls' = [calls EXCEPT ![p].pc = "get_access"]
       /\ UNCHANGED <<auth_list, access_list, file_keys>>

\* the loop moves to the next did, or the call returns
NextSlot(c) ==
    IF c.slot = 2 THEN [c EXCEPT !.pc = "done"]
    ELSE [c EXCEPT !.pc = "get_access", !.slot = 2]

\* the sentinel test and self.access_list.get((did, hk))
update_file_meta_get_access(p) ==
    LET c == calls[p]
        did == c.dids[c.slot]
    IN /\ c.pc = "get_access"
       /\ calls' = [calls EXCEPT ![p] =
                      IF did # Sentinel
                      THEN [c EXCEPT !.pc = "put_access", !.time = access_list[<<did, c.hk>>]]
                      ELSE NextSlot(c)]
       /\ UNCHANGED <<auth_list, files_meta, access_list, file_keys, n_updates>>

\* self.access_list.insert((did, hk), ...) and index += 1
update_file_meta_put_access(p) ==
    LET c == calls[p]
        did == c.dids[c.slot]
        written == IF IsSome(c.time)
                   THEN KeptAccess(c.bits[c.index + 1], Unwrap(c.time))
                   ELSE 1
    IN /\ c.pc = "put_access"
       /\ access_list' = [access_list EXCEPT ![<<did, c.hk>>] = Some(written)]
       /\ calls' = [calls EXCEPT ![p] = [c EXCEPT !.pc = "get_keys", !.index = @ + 1]]
       /\ UNCHANGED <<auth_list, files_meta, file_keys, n_updates>>

\* self.file_keys.get(did)
update_file_meta_get_keys(p) ==
    LET c == calls[p]
        did == c.dids[c.slot]
    IN /\ c.pc = "get_keys"
       /\ calls' = [calls EXCEPT ![p] = [c EXCEPT !.pc = "put_keys", !.keys = file_keys[did]]]
       /\ UNCHANGED <<auth_list, files_meta, access_list, file_keys, n_updates>>

\* self.file_keys.insert(did, &keys)
update_file_meta_put_keys(p) ==
    LET c == calls[p]
        did == c.dids[c.slot]
    IN /\ c.pc = "put_keys"
       /\ file_keys' = [file_keys EXCEPT ![did] = Some(PushKey(c.keys, c.hk))]
       /\ calls' = [calls EXCEPT ![p] = NextSlot(c)]
       /\ UNCHANGED <<auth_list, files_meta, access_list, n_updates>>

\* ------------------------------------------------------------------ queries
FileOf(hk) == IF IsSome(files_meta[hk]) THEN Unwrap(files_meta[hk]) ELSE DefaultFileMeta

\* the bytes emitted for one file key
Collator(hk) ==
    FileOf(hk).access_list[1] \o DidSeparator \o FileOf(hk).access_list[2]
        \o Separator \o FileOf(hk).cid \o ChunkSeparator

RECURSIVE CollateAll(_)
CollateAll(keys) ==
    IF keys = <<>> THEN <<>> ELSE Collator(Head(keys)) \o CollateAll(Tail(keys))

GetFilesInfo(did) ==
    IF IsSome(file_keys[did]) THEN CollateAll(Unwrap(file_keys[did])) ELSE <<>>

get_files_info(did) ==
    UNCHANGED vars

\* the access entry of the second owner slot read instead of the first
ExtraTuple_Slot1(hk) ==
    LET file == FileOf(hk)
        did_2 == file.access_list[2]
        entry == AccessGet(did_2, hk)
        access_bit1 == IF IsSome(entry) THEN Unwrap(entry) ELSE 0
    IN <<file.nonce, access_bit1, hk>>

\* a missing access entry reported as unlimited access
ExtraTuple_Granted(hk) ==
    LET file == FileOf(hk)
        did_1 == file.access_list[1]
        entry == AccessGet(did_1, hk)
        access_bit1 == IF IsSome(entry) THEN Unwrap(entry) ELSE 1
    IN <<file.nonce, access_bit1, hk>>

ExtraTuple(hk) ==
    LET file == FileOf(hk)
        did_1 == file.access_list[1]
        entry == AccessGet(did_1, hk)
        access_bit1 == IF IsSome(entry) THEN Unwrap(entry) ELSE 0
    IN <<file.nonce, access_bit1, hk>>

GetFilesExtraInfo(did) ==
    IF IsSome(file_keys[did])
    THEN [i \in 1..Len(Unwrap(file_keys[did])) |-> ExtraTuple(Unwrap(file_keys[did])[i])]
    ELSE <<>>

get_files_extra_info(did) ==
    UNCHANGED vars

\* ------------------------------------------------------------------ system
\* One file key, every argument combination of every message.
Next ==
    \/ \E did \in AccountDIDs, a \in AuthContents, doc \in DocCids, root \in Cids :
          create_new_account(did, a, doc, root)
    \/ \E did \in DIDs, a \in AuthContents : account_is_auth(did, a)
    \/ \E hk \in FocusKeys : get_file_sync_info(hk)
    \/ \E cid \in Cids, did \in DIDs : update_hashtable(cid, did)
    \/ \E cid \in Cids, hk \in FocusKeys, m \in Metadatas, did_1 \in DIDs, did_2 \in DIDs,
          b1 \in BOOLEAN, b2 \in BOOLEAN :
          update_file_meta(cid, hk, m, did_1, did_2, b1, b2)
    \/ \E did \in DIDs : get_files_info(did)
    \/ \E did \in DIDs : get_files_extra_info(did)
    \/ \E did \in DIDs, hk \in FocusKeys, revoke \in BOOLEAN : revoke_access(did, hk, revoke)

Spec == Init /\ [][Next]_vars

\* Two file keys, every owner pair and content pointer, access bits granted,
\* revocation of one identity on one key; the update_file_meta calls on all
\* keys together are capped.
TotalUpdates == n_updates[100] + n_updates[200]

NextKeys ==
    \/ \E did \in AccountDIDs, a \in {42}, doc \in DocCids, root \in {<<1>>} :
          create_new_account(did, a, doc, root)
    \/ \E did \in DIDs, a \in AuthContents : account_is_auth(did, a)
    \/ \E hk \in HashKeys : get_file_sync_info(hk)
    \/ \E cid \in {<<1>>}, did \in DIDs : update_hashtable(cid, did)
    \/ \E cid \in Cids, hk \in HashKeys, m \in Metadatas, did_1 \in DIDs, did_2 \in DIDs,
          b1 \in {TRUE}, b2 \in {TRUE} :
          /\ TotalUpdates < MaxTotalUpdates
          /\ update_file_meta(cid, hk, m, did_1, did_2, b1, b2)
    \/ \E did \in DIDs : get_files_info(did)
    \/ \E did \in DIDs : get_files_extra_info(did)
    \/ \E did \in {DidA}, hk \in FocusKeys, revoke \in BOOLEAN : revoke_access(did, hk, revoke)

SpecKeys == Init /\ [][NextKeys]_vars

\* Accounts of two identities with every credential and pointer; one file key
\* with two owner pairs, so that the other three tables are populated.
AllDocCids == {<<3>>, <<4>>}

NextAccounts ==
    \/ \E did \in NonSentinel, a \in AuthContents, doc \in AllDocCids, root \in Cids :
          create_new_account(did, a, doc, root)
    \/ \E did \in DIDs, a \in AuthContents : account_is_auth(did, a)
    \/ \E hk \in FocusKeys : get_file_sync_info(hk)
    \/ \E cid \in Cids, did \in DIDs : update_hashtable(cid, did)
    \/ \E cid \in {<<1>>}, hk \in FocusKeys, m \in Metadatas, did_1 \in {DidA},
          did_2 \in {Sentinel, DidB}, b1 \in {TRUE}, b2 \in {TRUE} :
          update_file_meta(cid, hk, m, did_1, did_2, b1, b2)
    \/ \E did \in DIDs : get_files_info(did)
    \/ \E did \in DIDs : get_files_extra_info(did)
    \/ \E did \in {DidA}, hk \in FocusKeys, revoke \in BOOLEAN : revoke_access(did, hk, revoke)

SpecAccounts == Init /\ [][NextAccounts]_vars

\* Serialized update_file_meta calls, then two callers with one call each, on
\* either key, sharing the slot-0 owner, their storage accesses interleaved in
\* every order.
NextRace ==
    \/ \E cid \in {<<1>>}, hk \in HashKeys, m \in Metadatas, did_1 \in {DidA},
          did_2 \in {Sentinel, DidB}, b1 \in {TRUE}, b2 \in {TRUE} :
          /\ \A p \in Procs : calls[p].pc = "idle"
          /\ TotalUpdates < MaxTotalUpdates
          /\ update_file_meta(cid, hk, m, did_1, did_2, b1, b2)
    \/ \E p \in Procs, cid \in {<<1>>}, hk \in HashKeys, did_1 \in {DidA},
          did_2 \in {Sentinel, DidB}, b1 \in {TRUE}, b2 \in {TRUE} :
          update_file_meta_get_meta(p, cid, hk, did_1, did_2, b1, b2)
    \/ \E p \in Procs : update_file_meta_put_meta(p)
    \/ \E p \in Procs : update_file_meta_get_access(p)
    \/ \E p \in Procs : update_file_meta_put_access(p)
    \/ \E p \in Procs : update_file_meta_get_keys(p)
    \/ \E p \in Procs : update_file_meta_put_keys(p)

SpecRace == Init /\ [][NextRace]_vars

\* ------------------------------------------------------------------ claims
Owners(hk) == Unwrap(files_meta[hk]).access_list
IndexOf(did) == IF IsSome(file_keys[did]) THEN Unwrap(file_keys[did]) ELSE <<>>

\* C1: authenticate(identity, credential) returns (true, stored rootIndexPointer)
\* iff an account exists for identity and its credential equals credential; in
\* every other case it returns (false, empty pointer).
C1_AuthenticateHidesPointer ==
    \A did \in DIDs, a \in AuthContents :
        AccountIsAuth(did, a) =
            IF IsSome(auth_list[did]) /\ Unwrap(auth_list[did]).auth_content = a
            THEN <<TRUE, Unwrap(auth_list[did]).root_hash_table>>
            ELSE <<FALSE, EmptyBytes>>

\* C2: after the N-th updateFileMeta call on k (N >= 1) getSyncInfo(k) returns
\* version N, and the version getSyncInfo(k) returns never decreases from one
\* state to the next, whatever operation is executed.
C2_VersionCountsUpdates ==
    /\ [](\A k \in HashKeys : n_updates[k] >= 1 => GetFileSyncInfo(k)[1] = n_updates[k])
    /\ [][\A k \in HashKeys : GetFileSyncInfo(k)[1]' >= GetFileSyncInfo(k)[1]]_vars

C2_Witness ==
    /\ n_updates[100] >= 2
    /\ n_updates[200] >= 1
    /\ GetFileSyncInfo(100)[1] = n_updates[100]
    /\ GetFileSyncInfo(200)[1] = n_updates[200]
    /\ Owners(100) # Owners(200)
    /\ access_list[<<DidA, 100>>] = Some(0)
    /\ IsSome(auth_list[DidA])

\* C3: in every reachable state the sentinel identity is not a key of
\* FileIndexTable and is not the identity component of any key of AccessTable.
C3_SentinelNeverKeyed ==
    /\ file_keys[Sentinel] = None
    /\ \A k \in HashKeys : access_list[<<Sentinel, k>>] = None

\* C4: for every file key k with a FileRecord and every owner slot holding a
\* non-sentinel identity o, k is in o's FileIndexEntry and an AccessEntry
\* exists for (o, k).
C4_OwnersIndexed ==
    \A k \in HashKeys : IsSome(files_meta[k]) =>
        \A i \in 1..2 :
            LET o == Owners(k)[i]
            IN o # Sentinel =>
                 /\ \E j \in 1..Len(IndexOf(o)) : IndexOf(o)[j] = k
                 /\ IsSome(access_list[<<o, k>>])

C4_Witness ==
    /\ IsSome(files_meta[100]) /\ IsSome(files_meta[200])
    /\ Owners(100) = <<DidA, Sentinel>>
    /\ Owners(200) = <<DidB, DidA>>
    /\ IndexOf(DidA) = <<200, 100>>
    /\ n_updates[200] >= 2

\* C5: in an updateFileMeta call with ownerA # ownerB, each non-sentinel owner
\* that already has an AccessEntry for k is governed by the grant flag of its
\* own slot: the entry keeps its value if that flag is true and becomes 0 if
\* it is false, whichever slot holds the sentinel.
C5_OwnSlotFlagGoverns ==
    [][\A cid \in Cids, hk \in HashKeys, m \in Metadatas, did_1 \in DIDs, did_2 \in DIDs,
          b1 \in BOOLEAN, b2 \in BOOLEAN :
          (did_1 # did_2 /\ update_file_meta(cid, hk, m, did_1, did_2, b1, b2)) =>
             /\ (did_1 # Sentinel /\ IsSome(access_list[<<did_1, hk>>])) =>
                   access_list'[<<did_1, hk>>] =
                       IF b1 THEN access_list[<<did_1, hk>>] ELSE Some(0)
             /\ (did_2 # Sentinel /\ IsSome(access_list[<<did_2, hk>>])) =>
                   access_list'[<<did_2, hk>>] =
                       IF b2 THEN access_list[<<did_2, hk>>] ELSE Some(0)]_vars

\* C6: every non-sentinel identity placed in an owner slot by updateFileMeta
\* for which no AccessEntry existed before the call has AccessEntry 1 when the
\* call completes, for every grantA/grantB and every choice of the two slots.
C6_NewOwnerStartsGranted ==
    [][\A cid \in Cids, hk \in HashKeys, m \in Metadatas, did_1 \in DIDs, did_2 \in DIDs,
          b1 \in BOOLEAN, b2 \in BOOLEAN :
          update_file_meta(cid, hk, m, did_1, did_2, b1, b2) =>
             \A o \in {did_1, did_2} :
                (o # Sentinel /\ access_list[<<o, hk>>] = None) =>
                    access_list'[<<o, hk>>] = Some(1)]_vars

\* C7: once AccessEntry(o, k) is 0 it stays 0 across every operation other
\* than revokeAccess(o, k, false); no updateFileMeta call changes it.
C7_RevokedStaysRevoked ==
    [][\A o \in DIDs, k \in HashKeys :
          (access_list[<<o, k>>] = Some(0) /\ access_list'[<<o, k>>] # Some(0)) =>
             /\ revoke_access(o, k, FALSE)
             /\ access_list'[<<o, k>>] = Some(1)]_vars

C7_Witness ==
    /\ access_list[<<DidA, 100>>] = Some(0)
    /\ access_list[<<DidB, 100>>] = Some(1)
    /\ n_updates[100] = MaxUpdates
    /\ Owners(100) = <<DidB, DidA>>

\* C8: revokeAccess(identity, k, revoke) sets AccessEntry(identity, k) to 0 if
\* revoke is true and to 1 otherwise, whatever its previous value or absence
\* and whether or not identity owns k or k has a FileRecord, and changes no
\* other AccessEntry and no other table.
C8_RevokeFrame ==
    [][\A did \in DIDs, hk \in HashKeys, revoke \in BOOLEAN :
          revoke_access(did, hk, revoke) =>
             /\ access_list'[<<did, hk>>] = Some(IF revoke THEN 0 ELSE 1)
             /\ \A p \in DIDs \X HashKeys :
                   p # <<did, hk>> => access_list'[p] = access_list[p]
             /\ file_keys' = file_keys
             /\ files_meta' = files_meta
             /\ auth_list' = auth_list]_vars

C8_Witness ==
    /\ files_meta[100] = None
    /\ file_keys[DidB] = None
    /\ access_list[<<DidB, 100>>] = Some(0)
    /\ access_list[<<DidA, 100>>] = Some(1)
    /\ IsSome(auth_list[DidA])

\* the positions of k in the index of o
Occurrences(o, k) == {i \in 1..Len(IndexOf(o)) : IndexOf(o)[i] = k}
PositionOf(o, k) == CHOOSE i \in Occurrences(o, k) : TRUE

\* the listFiles entry of a key, from its stored FileRecord
ExpectedEntry(k) ==
    Owners(k)[1] \o <<45, 45>> \o Owners(k)[2] \o <<35, 35>>
        \o Unwrap(files_meta[k]).cid \o <<35, 35, 35, 35>>

RECURSIVE EntryOffset(_, _)
EntryOffset(keys, i) ==
    IF i <= 1 THEN 0 ELSE Len(ExpectedEntry(keys[i - 1])) + EntryOffset(keys, i - 1)

\* listFiles(o) has exactly one entry for k, holding k's current FileRecord
Listed(o, k) ==
    /\ Cardinality(Occurrences(o, k)) = 1
    /\ \A j \in 1..Len(IndexOf(o)) : IsSome(files_meta[IndexOf(o)[j]])
    /\ LET off == EntryOffset(IndexOf(o), PositionOf(o, k))
           entry == ExpectedEntry(k)
           stream == GetFilesInfo(o)
       IN /\ Len(stream) >= off + Len(entry)
          /\ SubSeq(stream, off + 1, off + Len(entry)) = entry

IsPrefix(s, t) == Len(s) <= Len(t) /\ SubSeq(t, 1, Len(s)) = s

\* C9: after an updateFileMeta call on k with both owners non-sentinel, and in
\* every state afterwards, listFiles of each of the two owners contains
\* exactly one entry for k, at the position k took when it was first inserted
\* into that identity's index, built from k's current FileRecord: the call
\* puts k into both indexes (at the end, if it was not there), every step
\* keeps each index as a prefix of the next, and every indexed key is listed
\* exactly once with its current record.
C9_ListedOnceInOrder ==
    /\ [](\A o \in NonSentinel, k \in HashKeys : Occurrences(o, k) # {} => Listed(o, k))
    /\ [][/\ \A hk \in HashKeys : files_meta'[hk] # files_meta[hk] =>
                \A cid \in Cids, m \in Metadatas, did_1 \in NonSentinel, did_2 \in NonSentinel,
                   b1 \in BOOLEAN, b2 \in BOOLEAN :
                   update_file_meta(cid, hk, m, did_1, did_2, b1, b2) =>
                      \A o \in {did_1, did_2} :
                         /\ Occurrences(o, hk)' # {}
                         /\ Occurrences(o, hk) = {} => IndexOf(o)' = Append(IndexOf(o), hk)
          /\ \A o \in NonSentinel :
                file_keys'[o] # file_keys[o] => IsPrefix(IndexOf(o), IndexOf(o)')]_vars

C9_Witness ==
    /\ IsSome(files_meta[100]) /\ IsSome(files_meta[200])
    /\ Owners(100) = <<DidB, Sentinel>>
    /\ IndexOf(DidA) = <<200, 100>>
    /\ IndexOf(DidB) = <<100>>
    /\ n_updates[100] >= 2
    /\ Listed(DidA, 100) /\ Listed(DidB, 100)
    /\ access_list[<<DidA, 100>>] = Some(0)

\* C10: for every file key k whose FileRecord has a non-sentinel identity o in
\* owner slot 0, immediately after revokeAccess(o, k, true) listFilesExtra(o)
\* contains a tuple for k with accessState 0, immediately after
\* revokeAccess(o, k, false) with accessState 1, and the tuple's version is
\* k's current version.
C10_ExtraShowsRevocation ==
    [][\A o \in NonSentinel, k \in HashKeys, revoke \in BOOLEAN :
          (/\ IsSome(files_meta[k])
           /\ Owners(k)[1] = o
           /\ revoke_access(o, k, revoke)) =>
             \E i \in 1..Len(GetFilesExtraInfo(o)') :
                GetFilesExtraInfo(o)'[i] =
                    <<Unwrap(files_meta'[k]).nonce, IF revoke THEN 0 ELSE 1, k>>]_vars

C10_Witness ==
    /\ IsSome(files_meta[100])
    /\ Owners(100) = <<DidA, DidB>>
    /\ access_list[<<DidA, 100>>] = Some(0)
    /\ access_list[<<DidB, 100>>] = Some(1)
    /\ GetFilesExtraInfo(DidA) = <<<<2, 0, 100>>>>

\* C11: createAccount is an unconditional upsert: after createAccount(id, c,
\* d, r), whatever account id had before, the account of id holds exactly
\* (c, d, r), authenticate(id, c) succeeds and authenticate(id, c1) fails for
\* every c1 # c; the accounts of all other identities and the three other
\* tables are unchanged.
C11_CreateAccountUpserts ==
    [][\A did \in NonSentinel, a \in AuthContents, doc \in AllDocCids, root \in Cids :
          create_new_account(did, a, doc, root) =>
             /\ auth_list'[did] =
                   Some([auth_content |-> a, did_doc_cid |-> doc, root_hash_table |-> root])
             /\ \A c \in AuthContents : AccountIsAuth(did, c)'[1] = (c = a)
             /\ AccountIsAuth(did, a)'[2] = root
             /\ \A other \in DIDs \ {did} : auth_list'[other] = auth_list[other]
             /\ files_meta' = files_meta
             /\ access_list' = access_list
             /\ file_keys' = file_keys]_vars

C11_Witness ==
    /\ auth_list[DidA] =
          Some([auth_content |-> 7, did_doc_cid |-> <<4>>, root_hash_table |-> <<2>>])
    /\ auth_list[DidB] =
          Some([auth_content |-> 42, did_doc_cid |-> <<3>>, root_hash_table |-> <<1>>])
    /\ AccountIsAuth(DidA, 7)[1] /\ ~AccountIsAuth(DidA, 42)[1]
    /\ IsSome(files_meta[100])
    /\ access_list[<<DidA, 100>>] = Some(0)

\* C12: updateRootIndex(identity, p) on an identity with an account changes
\* only that account's rootIndexPointer to p; on an identity without an
\* account it changes nothing, and authenticate(identity, c) still returns
\* (false, empty). No operation other than createAccount creates an account or
\* changes an account's credential or identityDocPointer.
C12_RootIndexOnly ==
    [][/\ \A cid \in Cids, did \in DIDs :
             update_hashtable(cid, did) =>
                /\ IsSome(auth_list[did]) =>
                      /\ IsSome(auth_list'[did])
                      /\ Unwrap(auth_list'[did]).root_hash_table = cid
                      /\ Unwrap(auth_list'[did]).auth_content =
                            Unwrap(auth_list[did]).auth_content
                      /\ Unwrap(auth_list'[did]).did_doc_cid =
                            Unwrap(auth_list[did]).did_doc_cid
                /\ auth_list[did] = None =>
                      /\ auth_list'[did] = None
                      /\ \A c \in AuthContents : AccountIsAuth(did, c)' = <<FALSE, EmptyBytes>>
                /\ \A other \in DIDs \ {did} : auth_list'[other] = auth_list[other]
                /\ files_meta' = files_meta
                /\ access_list' = access_list
                /\ file_keys' = file_keys
       /\ \A did \in DIDs :
             (\/ IsSome(auth_list'[did]) # IsSome(auth_list[did])
              \/ /\ IsSome(auth_list[did])
                 /\ \/ Unwrap(auth_list'[did]).auth_content #
                          Unwrap(auth_list[did]).auth_content
                    \/ Unwrap(auth_list'[did]).did_doc_cid #
                          Unwrap(auth_list[did]).did_doc_cid) =>
                \E a \in AuthContents, doc \in AllDocCids, root \in Cids :
                    create_new_account(did, a, doc, root)]_vars

C12_Witness ==
    /\ auth_list[DidA] =
          Some([auth_content |-> 42, did_doc_cid |-> <<3>>, root_hash_table |-> <<2>>])
    /\ auth_list[DidB] = None
    /\ auth_list[Sentinel] = None
    /\ IsSome(files_meta[100])
    /\ Owners(100) = <<DidA, DidB>>
    /\ n_updates[100] = MaxUpdates

\* C13: getSyncInfo(k) returns (1, empty pointer) when no updateFileMeta has
\* been executed on k, and otherwise the current version with the
\* contentPointer passed to the most recent updateFileMeta on k: each such call
\* makes it (number of calls on k, its contentPointer), and no other step
\* changes it; getSyncInfo changes no table.
C13_SyncInfoIsLastWrite ==
    /\ [](\A k \in HashKeys : n_updates[k] = 0 => GetFileSyncInfo(k) = <<1, EmptyBytes>>)
    /\ [][/\ \A hk \in HashKeys : files_meta'[hk] # files_meta[hk] =>
                \A cid \in Cids, m \in Metadatas, did_1 \in DIDs, did_2 \in DIDs,
                   b1 \in BOOLEAN, b2 \in BOOLEAN :
                   update_file_meta(cid, hk, m, did_1, did_2, b1, b2) =>
                      GetFileSyncInfo(hk)' = <<n_updates'[hk], cid>>
          /\ \A k \in HashKeys :
                n_updates'[k] = n_updates[k] => GetFileSyncInfo(k)' = GetFileSyncInfo(k)
          /\ \A hk \in HashKeys : get_file_sync_info(hk) => UNCHANGED tables]_vars

C13_Witness ==
    /\ n_updates[100] = 2
    /\ GetFileSyncInfo(100) = <<2, <<2>>>>
    /\ n_updates[200] = 0
    /\ GetFileSyncInfo(200) = <<1, EmptyBytes>>
    /\ access_list[<<DidA, 100>>] = Some(0)

\* C14: every FileIndexEntry is duplicate-free in every reachable state, and
\* across every single operation each identity's FileIndexEntry before the
\* operation is a prefix of its FileIndexEntry after it.
C14_IndexOnlyGrows ==
    /\ [](\A o \in DIDs : \A i \in 1..Len(IndexOf(o)) : \A j \in 1..Len(IndexOf(o)) :
             IndexOf(o)[i] = IndexOf(o)[j] => i = j)
    /\ [][\A o \in DIDs :
             file_keys'[o] # file_keys[o] => IsPrefix(IndexOf(o), IndexOf(o)')]_vars

C14_Witness ==
    /\ IsSome(files_meta[100]) /\ IsSome(files_meta[200])
    /\ IndexOf(DidA) = <<200, 100>>
    /\ IndexOf(DidB) = <<100>>
    /\ Owners(100) = <<DidB, Sentinel>>
    /\ Owners(200) = <<Sentinel, DidA>>
    /\ access_list[<<DidA, 100>>] = Some(0)
    /\ n_updates[100] = 2

\* C16: listFilesExtra(identity) returns, for each key k of identity's
\* FileIndexEntry in index order, (version of k, AccessEntry of the slot-0
\* owner of k's record for k, or 0 if that entry is absent, k): the access
\* state of the slot-0 owner, not of the querying identity.
C16_ExtraReadsSlotZero ==
    \A did \in DIDs :
        /\ Len(GetFilesExtraInfo(did)) = Len(IndexOf(did))
        /\ \A i \in 1..Len(IndexOf(did)) :
              LET k == IndexOf(did)[i]
              IN /\ IsSome(files_meta[k])
                 /\ GetFilesExtraInfo(did)[i] =
                       <<Unwrap(files_meta[k]).nonce,
                         IF IsSome(access_list[<<Owners(k)[1], k>>])
                         THEN Unwrap(access_list[<<Owners(k)[1], k>>])
                         ELSE 0,
                         k>>

C16_Witness ==
    /\ IsSome(files_meta[100])
    /\ Owners(100) = <<Sentinel, DidB>>
    /\ access_list[<<DidB, 100>>] = Some(1)
    /\ access_list[<<Sentinel, 100>>] = None
    /\ GetFilesExtraInfo(DidB) = <<<<2, 0, 100>>>>

\* C17: updateFileMeta(contentPointer, k, meta, ownerA, ownerB, grantA, grantB)
\* on an existing key replaces the owner pair with [ownerA, ownerB] and
\* continues the version (old + 1); it leaves unchanged AccountTable, the
\* FileRecord of every other key, every AccessEntry whose key is not
\* (ownerA, k) or (ownerB, k), and the FileIndexEntry of every identity other
\* than ownerA and ownerB; a former owner dropped from the pair keeps k in its
\* FileIndexEntry.
C17_UpdateFrame ==
    [][\A hk \in HashKeys : (IsSome(files_meta[hk]) /\ files_meta'[hk] # files_meta[hk]) =>
          \A cid \in Cids, m \in Metadatas, did_1 \in DIDs, did_2 \in DIDs,
             b1 \in BOOLEAN, b2 \in BOOLEAN :
             update_file_meta(cid, hk, m, did_1, did_2, b1, b2) =>
                /\ Owners(hk)' = <<did_1, did_2>>
                /\ Unwrap(files_meta'[hk]).nonce = Unwrap(files_meta[hk]).nonce + 1
                /\ auth_list' = auth_list
                /\ \A k \in HashKeys \ {hk} : files_meta'[k] = files_meta[k]
                /\ \A p \in (DIDs \X HashKeys) \ {<<did_1, hk>>, <<did_2, hk>>} :
                      access_list'[p] = access_list[p]
                /\ \A o \in DIDs \ {did_1, did_2} : file_keys'[o] = file_keys[o]
                /\ \A former \in NonSentinel \ {did_1, did_2} :
                      former \in {Owners(hk)[1], Owners(hk)[2]} =>
                         /\ Occurrences(former, hk)' # {}
                         /\ access_list'[<<former, hk>>] = access_list[<<former, hk>>]]_vars

C17_Witness ==
    /\ IsSome(files_meta[100])
    /\ Owners(100) = <<DidB, Sentinel>>
    /\ n_updates[100] >= 2
    /\ Occurrences(DidA, 100) # {}
    /\ access_list[<<DidA, 100>>] = Some(0)
    /\ auth_list[DidB] = None
    /\ IsSome(files_meta[200])

\* C19: in every reachable state every AccessEntry value is 0 or 1.
C19_AccessIsZeroOrOne ==
    \A p \in DIDs \X HashKeys :
        IsSome(access_list[p]) => Unwrap(access_list[p]) \in {0, 1}

C19_Witness ==
    /\ access_list[<<DidA, 100>>] = Some(0)
    /\ access_list[<<DidB, 100>>] = Some(1)
    /\ access_list[<<Sentinel, 100>>] = None
    /\ n_updates[100] = MaxUpdates

\* C20: every file key contained in any identity's FileIndexEntry has a
\* FileRecord with version >= 1, so listFiles and listFilesExtra never take
\* the default of a missing record and listFilesExtra never reports version 0.
C20_IndexedKeysHaveRecords ==
    \A o \in DIDs : \A i \in 1..Len(IndexOf(o)) :
        /\ IsSome(files_meta[IndexOf(o)[i]])
        /\ Unwrap(files_meta[IndexOf(o)[i]]).nonce >= 1
        /\ GetFilesExtraInfo(o)[i][1] >= 1

C20_Witness ==
    /\ IndexOf(DidA) = <<100, 200>>
    /\ IndexOf(DidB) = <<200>>
    /\ GetFilesExtraInfo(DidA)[1][1] = 2
    /\ GetFilesExtraInfo(DidA)[2][1] = 1
    /\ Owners(100) = <<Sentinel, Sentinel>>

\* C15: when the read of the stored version and the write of the FileRecord
\* are separate steps, two update_file_meta calls on the same key can both
\* complete with the stored version smaller than the number of calls made on
\* that key; the stored version falls behind only when the two calls on that
\* key overlapped, never when the calls were serialized.
C15_LostIncrementNeedsOverlap ==
    \A k \in HashKeys :
        /\ files_meta[k] = None => n_updates[k] = 0
        /\ IsSome(files_meta[k]) =>
              \/ Unwrap(files_meta[k]).nonce = n_updates[k]
              \/ /\ Unwrap(files_meta[k]).nonce < n_updates[k]
                 /\ \A p \in Procs : calls[p].overlapped /\ calls[p].hk = k

C15_Witness ==
    /\ \A p \in Procs : calls[p].pc = "done" /\ calls[p].hk = 100
    /\ n_updates[100] = 3
    /\ Unwrap(files_meta[100]).nonce = 2

\* o is recorded as an owner of k and k is missing from o's index
LostIndexKey(o, k) ==
    /\ IsSome(files_meta[k])
    /\ o \in {Owners(k)[1], Owners(k)[2]}
    /\ Occurrences(o, k) = {}

\* C18: when the read and the write of an owner's FileIndexEntry are separate
\* steps, two update_file_meta calls on different keys that share a
\* non-sentinel owner o can both complete with both FileRecords listing o and
\* o's FileIndexEntry lacking one of the keys; once no call is in progress, a
\* key is missing from a recorded owner's index only if the two calls
\* overlapped on different keys with that owner, never after two calls on
\* the same key.
C18_LostIndexKeyNeedsTwoKeys ==
    (\A p \in Procs : ~MidCall(p)) =>
        \A o \in NonSentinel, k \in HashKeys :
            LostIndexKey(o, k) =>
                /\ \A p \in Procs : calls[p].overlapped /\ o \in {calls[p].dids[1], calls[p].dids[2]}
                /\ \E p \in Procs, q \in Procs : calls[p].hk # calls[q].hk

C18_Witness ==
    /\ \A p \in Procs : calls[p].pc = "done"
    /\ calls[1].hk = 100 /\ calls[2].hk = 200
    /\ n_updates[100] = 1 /\ n_updates[200] = 1
    /\ Owners(100)[1] = DidA /\ Owners(200)[1] = DidA
    /\ LostIndexKey(DidA, 100)
    /\ IndexOf(DidA) = <<200>>

====
